---- MODULE Spec2Model ----
(***************************************************************************)
(* TaleCanvas orchestration core (src/app.py): the api_retry wrapper, the  *)
(* image batch generate_images_parallel with its quota flag, the prompt    *)
(* and audio batches, and the create_storybook run that sequences them.    *)
(*                                                                         *)
(* An error text is modelled by the set of keywords it contains (the code  *)
(* only ever asks `keyword in text`).                                      *)
(***************************************************************************)
EXTENDS Integers, Sequences, FiniteSets, TLC

(***************************************************************************)
(* Bounds                                                                  *)
(***************************************************************************)
MaxRetries == 2        \* max_retries ranges over 0..MaxRetries

(***************************************************************************)
(* api_retry: keyword lists and retry decisions                            *)
(***************************************************************************)
\* src/app.py:68, keywords of the returned-result path
ResultTransientKeywords ==
    {"timeout", "network", "connection", "temporary", "server error", "5"}

\* src/app.py:101-104, keywords of the exception path
ExceptionTransientKeywords ==
    {"timeout", "network", "connection", "temporary",
     "server error", "service unavailable", "bad gateway"}

QuotaKeywords == {"quota"}
ParseKeywords == {"json", "parse"}

Keywords ==
    ResultTransientKeywords \cup ExceptionTransientKeywords
        \cup QuotaKeywords \cup ParseKeywords

\* Error texts tried: no keyword, one keyword, or a quota/parse keyword
\* together with one other keyword.
Texts ==
    {{}} \cup {{k} : k \in Keywords}
         \cup {{q, k} : q \in QuotaKeywords \cup ParseKeywords, k \in Keywords}

\* any(keyword in text for keyword in kws)
ContainsAny(text, kws) == text \cap kws # {}

NoError == "none"
QuotaType == "quota_exhausted"

\* What one invocation of the wrapped function produces.
\*   ok    : dict with success = True
\*   plain : a value without a success flag (e.g. a prompt string)
\*   fail  : dict with success = False, its error text and error_type
\*   raise : an exception with its text
Outcome(kind, text, etype) == [kind |-> kind, text |-> text, error_type |-> etype]
OkOutcome == Outcome("ok", {}, NoError)
PlainOutcome == Outcome("plain", {}, NoError)
FailOutcomes == {Outcome("fail", t, e) : t \in Texts, e \in {NoError, QuotaType}}
RaiseOutcomes == {Outcome("raise", t, NoError) : t \in Texts}
Outcomes == {OkOutcome, PlainOutcome} \cup FailOutcomes \cup RaiseOutcomes
NoOutcome == Outcome("none", {}, NoError)

\* ShouldRetryResult with should_retry starting out True instead of False
ShouldRetryResult_DefaultTrue(res, retry_on_quota) ==
    IF ContainsAny(res.text, ResultTransientKeywords) THEN TRUE
    ELSE IF ContainsAny(res.text, QuotaKeywords) \/ res.error_type = QuotaType
         THEN retry_on_quota
    ELSE TRUE

\* src/app.py:65-77, should_retry of a returned success = False result
ShouldRetryResult(res, retry_on_quota) ==
    IF ContainsAny(res.text, ResultTransientKeywords) THEN TRUE
    ELSE IF ContainsAny(res.text, QuotaKeywords) \/ res.error_type = QuotaType
         THEN retry_on_quota
    ELSE IF ContainsAny(res.text, ParseKeywords) THEN TRUE
    ELSE FALSE

\* src/app.py:101-104, should_retry of a raised exception
ShouldRetryException(res) == ContainsAny(res.text, ExceptionTransientKeywords)

\* WrapperRetries without the early `return result` of a successful result
WrapperRetries_NoSuccessReturn(res, attempt, max_retries, retry_on_quota) ==
    CASE res.kind = "ok"    -> ~(attempt >= max_retries)
      [] res.kind = "plain" -> FALSE
      [] res.kind = "fail"  ->
            ShouldRetryResult(res, retry_on_quota) /\ ~(attempt >= max_retries)
      [] res.kind = "raise" ->
            ShouldRetryException(res) /\ ~(attempt >= max_retries)

\* src/app.py:57-107, the decision taken after one invocation:
\* TRUE when the wrapper sleeps and goes round the loop again.
WrapperRetries(res, attempt, max_retries, retry_on_quota) ==
    CASE res.kind = "ok"    -> FALSE
      [] res.kind = "plain" -> FALSE
      [] res.kind = "fail"  ->
            ShouldRetryResult(res, retry_on_quota) /\ ~(attempt >= max_retries)
      [] res.kind = "raise" ->
            ShouldRetryException(res) /\ ~(attempt >= max_retries)

(***************************************************************************)
(* State of one call of an api_retry-wrapped function                      *)
(***************************************************************************)
VARIABLES
    max_retries,     \* decorator argument
    retry_on_quota,  \* decorator argument
    delay,           \* decorator argument, in seconds
    backoff,         \* decorator argument
    jitter,          \* decorator argument
    wait_time,       \* the last wait passed to time.sleep, in tenths of a second
    attempt,         \* loop variable of `for attempt in range(max_retries + 1)`
    rpc,             \* "idle", "loop", "returned" or "raised"
    calls,           \* invocations of func so far
    sleeps,          \* calls of time.sleep so far
    last_exception,  \* last exception caught, NoOutcome when none
    first,           \* outcome of the first invocation
    ret              \* the value returned, or the exception raised

retryVars ==
    <<max_retries, retry_on_quota, delay, backoff, jitter, wait_time, attempt,
      rpc, calls, sleeps, last_exception, first, ret>>

(***************************************************************************)
(* State of one image batch, generate_images_parallel                      *)
(* (src/app.py:932-984)                                                    *)
(***************************************************************************)
VARIABLES
    prompts_data,    \* sequence of [key, prompt], the batch's input
    max_concurrent,  \* pool size
    quota_exhausted, \* the nonlocal flag of generate_images_parallel
    results,         \* the result map, key -> result
    bpc,             \* "idle", "submitted", "collect", "shutdown", "returned"
    fstate,          \* task -> state of its future
    tpc,             \* task -> position in generate_single_image
    tattempt,        \* task -> attempt of the wrapper of generate_image_gemini
    tcalls,          \* task -> invocations of the image service
    tsleeps,         \* task -> sleeps of the wrapper
    tres,            \* task -> result the task returns
    sawOpen,         \* task -> the flag as read at src/app.py:941
    overtime,        \* task -> its service call ran longer than the timeout
    acSnapshot,      \* as_completed: futures already done when it started
    acQueue,         \* as_completed: futures done since, in finishing order
    runningAtTrip    \* tasks in their service call when the flag was set

imageVars ==
    <<prompts_data, max_concurrent, quota_exhausted, results, bpc, fstate, tpc, tattempt, tcalls, tsleeps, tres, sawOpen, overtime,
      acSnapshot, acQueue, runningAtTrip>>

(***************************************************************************)
(* State of one prompt batch, generate_all_prompts_parallel                *)
(* (src/app.py:986-1046); prompts_data above is the list it builds         *)
(***************************************************************************)
VARIABLES
    ppc,             \* "idle", "submitted", "collect", "returned"
    pfstate,         \* task -> state of its future
    pcalls,          \* task -> invocations of the text service
    pprompt,         \* task -> the prompt the task returns
    pSnapshot,       \* as_completed: futures already done when it started
    pQueue           \* as_completed: futures done since, in finishing order

promptVars == <<ppc, pfstate, pcalls, pprompt, pSnapshot, pQueue>>

(***************************************************************************)
(* State of one audio batch, generate_audio_parallel                       *)
(* (src/app.py:1441-1494)                                                  *)
(***************************************************************************)
VARIABLES
    audio_results,   \* the result map, key -> result
    apc,             \* "idle", "submitted", "collect", "returned"
    afstate,         \* task -> state of its future
    aattempt,        \* task -> attempt of the wrapper of text_to_speech
    ares,            \* task -> result the task returns
    aSnapshot,       \* as_completed: futures already done when it started
    aQueue           \* as_completed: futures done since, in finishing order

audioVars ==
    <<audio_results, apc, afstate, aattempt, ares, aSnapshot, aQueue>>

(***************************************************************************)
(* State of one run of create_storybook (src/app.py:1048-1189) and of the  *)
(* generator that owns it                                                  *)
(***************************************************************************)
VARIABLES
    stage,             \* position of create_storybook
    sattempt,          \* attempt of the wrapper of the current stage call
    structure_called,  \* generate_story_structure has been invoked
    pages_called,      \* generate_story_pages has been invoked
    structure_result,  \* what generate_story_structure returned
    pages_result,      \* what generate_story_pages returned
    pages,             \* the page texts; page N has text N
    run_ret,           \* what create_storybook returned
    current_storybook  \* self.current_storybook: <<>> (None) or <<storybook>>

runVars ==
    <<stage, sattempt, structure_called, pages_called, structure_result,
      pages_result, pages, run_ret, current_storybook>>

\* What earlier image batches of the same generator did
VARIABLES
    earlier_trip,    \* an image batch that has returned had set its flag
    startedAfterQuota, \* tasks started after a quota-failed task had completed
    lateCalls        \* tasks that began an invocation with the flag set

\* One call of the regeneration endpoint and of regenerate_failed_images
\* (src/app.py:1191-1277, 1934-1956) on the current storybook
VARIABLES
    gpc,                  \* "idle", "generate", "calling", "update", "returned"
    failed_page_numbers,  \* the optional filter: <<>> (None) or <<set>>
    pages_to_regenerate,  \* page numbers of the targets, the cover as 0
    gidx,                 \* position of the generation loop in the targets
    gattempt,             \* attempt of the wrapper of generate_image_gemini
    regenerated_results,  \* target -> result
    regen_ret,            \* what the endpoint answers
    book_before,          \* the storybook as it was when the call began
    in_flight,            \* image-service invocations begun and not yet ended
    invoked               \* targets for which the image service was invoked

\* The generator object and the quota-status endpoint
\* (src/app.py:308-310, 1958-1972)
VARIABLES
    self_quota_exhausted, \* the attribute self.quota_exhausted
    quota_status          \* what the endpoint last answered, None before

generatorVars == <<self_quota_exhausted, quota_status>>

regenVars ==
    <<gpc, failed_page_numbers, pages_to_regenerate, gidx, gattempt,
      regenerated_results, regen_ret, book_before, in_flight, invoked>>

vars ==
    <<retryVars, imageVars, promptVars, audioVars, runVars, regenVars,
      earlier_trip, startedAfterQuota, lateCalls, generatorVars>>

nonRetryVars ==
    <<imageVars, promptVars, audioVars, runVars, regenVars, earlier_trip, startedAfterQuota, lateCalls, generatorVars>>
nonImageVars ==
    <<retryVars, promptVars, audioVars, runVars, regenVars, earlier_trip, startedAfterQuota, lateCalls, generatorVars>>
nonPromptVars ==
    <<retryVars, audioVars, runVars, regenVars, earlier_trip, startedAfterQuota, lateCalls, generatorVars,
      max_concurrent, quota_exhausted, results, bpc, fstate, tpc,
      tattempt, tcalls, tsleeps, tres, sawOpen, overtime, acSnapshot, acQueue,
      runningAtTrip>>
nonAudioVars ==
    <<retryVars, imageVars, promptVars, runVars, regenVars, earlier_trip, startedAfterQuota, lateCalls, generatorVars>>
nonRegenVars ==
    <<retryVars, imageVars, promptVars, audioVars, earlier_trip, startedAfterQuota, lateCalls, generatorVars,
      stage, sattempt, structure_called, pages_called, structure_result,
      pages_result, pages, run_ret>>

\* src/app.py:52, range(max_retries + 1)
AttemptRange(mr) == 0..mr

\* src/app.py:121, the value returned when the loop runs out
AllRetriesFailed == Outcome("fail", {}, NoError)

MaxDelay == 2          \* delay ranges over 1..MaxDelay
MaxBackoff == 3        \* backoff ranges over 1..MaxBackoff

\* src/app.py:36, the defaults every decorator of the program leaves alone
DefaultDelay == 1
DefaultBackoff == 2
DefaultJitter == TRUE

\* Waits are counted in tenths of a second, the grain of the 10% jitter.
Tenths == 10

RECURSIVE Power(_, _)
\* src/app.py:84 and 109, backoff ** attempt
Power(b, k) == IF k = 0 THEN 1 ELSE b * Power(b, k - 1)

\* BaseWait of a wrapper that multiplies by the attempt instead of raising
\* to its power
BaseWait_Linear(d, b, k) == Tenths * d * b * k

\* src/app.py:84 and 109, wait_time = delay * (backoff ** attempt)
BaseWait(d, b, k) == Tenths * d * Power(b, k)

\* src/app.py:85-86 and 110-111, random.uniform(0, wait_time * 0.1): its two
\* ends and a value in between; nothing is added with jitter off.
JitterDraws(w, j) ==
    IF j THEN {0, (w \div Tenths) \div 2, w \div Tenths} ELSE {0}

RetryIdle ==
    /\ max_retries = 0
    /\ retry_on_quota = FALSE
    /\ delay = DefaultDelay
    /\ backoff = DefaultBackoff
    /\ jitter = DefaultJitter
    /\ wait_time = 0
    /\ attempt = 0
    /\ rpc = "idle"
    /\ calls = 0
    /\ sleeps = 0
    /\ last_exception = NoOutcome
    /\ first = NoOutcome
    /\ ret = NoOutcome

\* A call of the wrapper begins (src/app.py:49-52); delay, backoff and
\* jitter are the defaults, as in every decorator of the program.
RetryInit ==
    /\ max_retries \in 0..MaxRetries
    /\ retry_on_quota \in BOOLEAN
    /\ delay = DefaultDelay
    /\ backoff = DefaultBackoff
    /\ jitter = DefaultJitter
    /\ wait_time = 0
    /\ attempt = 0
    /\ rpc = "loop"
    /\ calls = 0
    /\ sleeps = 0
    /\ last_exception = NoOutcome
    /\ first = NoOutcome
    /\ ret = NoOutcome

\* One iteration of the loop body (src/app.py:52-121): invoke func, then
\* return, raise, or sleep and continue; when the range is used up the
\* code after the loop runs.
WrapperAttempt(res) ==
    /\ rpc = "loop"
    /\ attempt \in AttemptRange(max_retries)
    /\ calls' = calls + 1
    /\ first' = IF calls = 0 THEN res ELSE first
    /\ last_exception' = IF res.kind = "raise" THEN res ELSE last_exception
    /\ IF WrapperRetries(res, attempt, max_retries, retry_on_quota)
       THEN /\ \E u \in JitterDraws(BaseWait(delay, backoff, attempt), jitter) :
                  wait_time' = BaseWait(delay, backoff, attempt) + u
            /\ sleeps' = sleeps + 1
            /\ attempt' = attempt + 1
            /\ IF attempt + 1 \in AttemptRange(max_retries)
               THEN UNCHANGED <<rpc, ret>>
               ELSE IF last_exception' # NoOutcome
                    THEN rpc' = "raised" /\ ret' = last_exception'
                    ELSE rpc' = "returned" /\ ret' = AllRetriesFailed
       ELSE /\ rpc' = IF res.kind = "raise" THEN "raised" ELSE "returned"
            /\ ret' = res
            /\ UNCHANGED <<sleeps, attempt, wait_time>>
    /\ UNCHANGED <<max_retries, retry_on_quota, delay, backoff, jitter>>
    /\ UNCHANGED nonRetryVars


(***************************************************************************)
(* The image batch: generate_images_parallel (src/app.py:932-984)          *)
(*                                                                         *)
(* A key is a page number: N stands for "page_N" and 0 for "cover".        *)
(* Task i is the i-th entry of prompts_data; its future goes through the   *)
(* states of concurrent.futures (pending, running, finished, cancelled).   *)
(***************************************************************************)
MaxPages == 2          \* a story has 1..MaxPages pages
MaxPool == 2           \* max_concurrent ranges over 1..MaxPool
MaxOverruns == 1       \* service calls of one batch that outlast the timeout

CoverKey == 0

\* src/app.py:809, @api_retry(max_retries=3, retry_on_quota=True)
ImageMaxRetries == 3
ImageRetryOnQuota == TRUE

\* src/app.py:889-895, a generated image
ImageSuccess == OkOutcome
\* src/app.py:916-920, the service reported RESOURCE_EXHAUSTED / quota
ImageQuotaFailure == Outcome("fail", {}, QuotaType)
\* src/app.py:813, 902, 930: any other failure, with the text of the error
ImageFailure(text) == Outcome("fail", text, NoError)
\* src/app.py:816, an exception raised outside the try of the body
ImageRaise == Outcome("raise", {}, NoError)
\* Error texts tried for the image service: one without keyword, one transient.
ImageErrorTexts == {{}, {"timeout"}}
\* Results of one run of the body of generate_image_gemini
ImageOutcomes ==
    {ImageSuccess, ImageQuotaFailure} \cup {ImageFailure(t) : t \in ImageErrorTexts}

\* src/app.py:943-947, the result of a task skipped because the flag is set;
\* "skipped" stands for its text, which holds no keyword.
SkippedResult == Outcome("fail", {"skipped"}, QuotaType)
\* src/app.py:982, the result recorded when future.result raises
FutureErrorResult == Outcome("fail", {}, NoError)

Success(res) == res.kind = "ok"

Tasks == DOMAIN fstate
KeyOf(i) == prompts_data[i].key
MaxTasks == MaxPages + 1

\* An entry of prompts_data carrying the prompt generated for its own key.
PromptEntry(k) == [key |-> k, prompt |-> <<"generated", k>>]
\* prompts_data in page order followed by the cover, for n pages
OrderedPrompts(n) == [i \in 1..(n + 1) |-> PromptEntry(IF i <= n THEN i ELSE CoverKey)]

EmptyMap == [k \in {} |-> NoOutcome]

\* src/app.py:308-310, __init__
GeneratorIdle ==
    /\ self_quota_exhausted = FALSE
    /\ quota_status = <<>>

ImageIdle ==
    /\ prompts_data = <<>>
    /\ max_concurrent = 1
    /\ quota_exhausted = FALSE
    /\ results = EmptyMap
    /\ bpc = "idle"
    /\ fstate = <<>>
    /\ tpc = <<>>
    /\ tattempt = <<>>
    /\ tcalls = <<>>
    /\ tsleeps = <<>>
    /\ tres = <<>>
    /\ sawOpen = <<>>
    /\ overtime = <<>>
    /\ acSnapshot = {}
    /\ acQueue = <<>>
    /\ runningAtTrip = {}
    /\ earlier_trip = FALSE
    /\ startedAfterQuota = {}
    /\ lateCalls = {}

\* FreshFlag of a batch that takes over the flag the last batch left
FreshFlag_CarriedOver(old) == old

\* src/app.py:935, `quota_exhausted = False`: the flag is a local of the call
FreshFlag(old) == FALSE

\* Entry of generate_images_parallel(pd, mc), src/app.py:932-965, on a
\* generator whose earlier batch, if any, has returned: an empty result map,
\* a fresh flag, and every entry of prompts_data submitted to the pool in
\* order (a task submitted early can only start early, which the steps
\* below allow as well).
BeginImageBatch(pd, mc) ==
    /\ bpc \in {"idle", "returned"}
    /\ prompts_data' = pd
    /\ max_concurrent' = mc
    /\ quota_exhausted' = FreshFlag(quota_exhausted)
    /\ earlier_trip' = (earlier_trip \/ quota_exhausted)
    /\ startedAfterQuota' = {}
    /\ lateCalls' = {}
    /\ results' = EmptyMap
    /\ bpc' = "submitted"
    /\ fstate' = [i \in 1..Len(pd) |-> "pending"]
    /\ tpc' = [i \in 1..Len(pd) |-> "idle"]
    /\ tattempt' = [i \in 1..Len(pd) |-> 0]
    /\ tcalls' = [i \in 1..Len(pd) |-> 0]
    /\ tsleeps' = [i \in 1..Len(pd) |-> 0]
    /\ tres' = [i \in 1..Len(pd) |-> NoOutcome]
    /\ sawOpen' = [i \in 1..Len(pd) |-> FALSE]
    /\ overtime' = [i \in 1..Len(pd) |-> FALSE]
    /\ acSnapshot' = {}
    /\ acQueue' = <<>>
    /\ runningAtTrip' = {}

Running == {i \in Tasks : fstate[i] = "running"}
Done(i) == fstate[i] \in {"finished", "failed", "cancelled"}

\* The tasks whose call of the image service ended in a quota failure and
\* whose future has completed (src/app.py:916-920, 957).
QuotaFailedCompleted ==
    {a \in Tasks : /\ fstate[a] = "finished"
                   /\ tcalls[a] > 0
                   /\ tres[a].error_type = QuotaType}

\* PoolHasRoom of a pool that starts a thread for every future
PoolHasRoom_Unbounded(n, mc) == TRUE

\* src/app.py:960, ThreadPoolExecutor(max_workers=max_concurrent): a future
\* starts only while fewer than max_concurrent are running
PoolHasRoom(n, mc) == n < mc

\* A pool thread takes the oldest queued future (ThreadPoolExecutor with
\* max_workers = max_concurrent, src/app.py:960).
StartImage(i) ==
    /\ fstate[i] = "pending"
    /\ \A j \in 1..(i - 1) : fstate[j] # "pending"
    /\ PoolHasRoom(Cardinality(Running), max_concurrent)
    /\ fstate' = [fstate EXCEPT ![i] = "running"]
    /\ tpc' = [tpc EXCEPT ![i] = "check"]
    /\ startedAfterQuota' =
          IF QuotaFailedCompleted # {} THEN startedAfterQuota \cup {i}
          ELSE startedAfterQuota
    /\ UNCHANGED <<prompts_data, max_concurrent, quota_exhausted, results, bpc,
                   tattempt, tcalls, tsleeps, tres, sawOpen,
                   overtime, acSnapshot, acQueue, runningAtTrip>>
    /\ UNCHANGED <<retryVars, promptVars, audioVars, runVars, regenVars,
                   earlier_trip, lateCalls, generatorVars>>

\* BreakerOpen of a task that never looks at the flag
BreakerOpen_Ignored(flag) == FALSE

\* src/app.py:941, the value of the flag that sends a task to the skip branch
BreakerOpen(flag) == flag

\* src/app.py:941-949, the breaker check of generate_single_image
CheckBreaker(i) ==
    /\ tpc[i] = "check"
    /\ sawOpen' = [sawOpen EXCEPT ![i] = quota_exhausted]
    /\ IF BreakerOpen(quota_exhausted)
       THEN /\ tres' = [tres EXCEPT ![i] = SkippedResult]
            /\ tpc' = [tpc EXCEPT ![i] = "return"]
       ELSE /\ tpc' = [tpc EXCEPT ![i] = "call"]
            /\ UNCHANGED tres
    /\ UNCHANGED <<prompts_data, max_concurrent, quota_exhausted, results, bpc,
                   fstate, tattempt, tcalls, tsleeps, overtime,
                   acSnapshot, acQueue, runningAtTrip>>
    /\ UNCHANGED nonImageVars

\* src/app.py:950, one invocation of the image service inside the wrapper
\* of generate_image_gemini, followed by the wrapper's decision.
InvokeImage(i, res) ==
    /\ tpc[i] = "call"
    /\ tattempt[i] \in AttemptRange(ImageMaxRetries)
    /\ tcalls' = [tcalls EXCEPT ![i] = @ + 1]
    /\ IF WrapperRetries(res, tattempt[i], ImageMaxRetries, ImageRetryOnQuota)
       THEN /\ tsleeps' = [tsleeps EXCEPT ![i] = @ + 1]
            /\ tattempt' = [tattempt EXCEPT ![i] = @ + 1]
            /\ IF tattempt[i] + 1 \in AttemptRange(ImageMaxRetries)
               THEN UNCHANGED <<tres, tpc>>
               ELSE /\ tres' = [tres EXCEPT ![i] = AllRetriesFailed]
                    /\ tpc' = [tpc EXCEPT ![i] = "post"]
       ELSE /\ tres' = [tres EXCEPT ![i] = res]
            /\ tpc' = [tpc EXCEPT ![i] =
                          IF res.kind = "raise" THEN "raised" ELSE "post"]
            /\ UNCHANGED <<tsleeps, tattempt>>
    /\ UNCHANGED <<prompts_data, max_concurrent, quota_exhausted, results, bpc,
                   fstate, sawOpen, overtime, acSnapshot, acQueue,
                   runningAtTrip>>
    /\ lateCalls' = IF quota_exhausted THEN lateCalls \cup {i} ELSE lateCalls
    /\ UNCHANGED <<retryVars, promptVars, audioVars, runVars, regenVars,
                   earlier_trip, startedAfterQuota, generatorVars>>

\* The service call of task i has been running for more than the 180 s the
\* collector passes to future.result (src/app.py:970).
ImageCallOverruns(i) ==
    /\ tpc[i] = "call"
    /\ ~overtime[i]
    /\ Cardinality({j \in Tasks : overtime[j]}) < MaxOverruns
    /\ overtime' = [overtime EXCEPT ![i] = TRUE]
    /\ UNCHANGED <<prompts_data, max_concurrent, quota_exhausted, results, bpc,
                   fstate, tpc, tattempt, tcalls, tsleeps, tres,
                   sawOpen, acSnapshot, acQueue, runningAtTrip>>
    /\ UNCHANGED nonImageVars

\* TripsBreaker of a task that sets the flag after any failure
TripsBreaker_AnyFailure(res) == ~Success(res)

\* TripsBreaker of a task that never sets the flag
TripsBreaker_Never(res) == FALSE

\* src/app.py:953, the condition under which a task sets the flag
TripsBreaker(res) == ~Success(res) /\ res.error_type = QuotaType

\* AttributeAfterTrip of a task that sets the attribute of the generator
AttributeAfterTrip_Set(old) == TRUE

\* src/app.py:939 and 954: `nonlocal quota_exhausted` makes the assignment
\* write the local of generate_images_parallel; self.quota_exhausted stays
AttributeAfterTrip(old) == old

\* src/app.py:953-955, the flag is set after a quota failure
RecordQuota(i) ==
    /\ tpc[i] = "post"
    /\ tpc' = [tpc EXCEPT ![i] = "return"]
    /\ IF TripsBreaker(tres[i])
       THEN /\ quota_exhausted' = TRUE
            /\ self_quota_exhausted' = AttributeAfterTrip(self_quota_exhausted)
            /\ runningAtTrip' =
                  IF quota_exhausted THEN runningAtTrip
                  ELSE {j \in Tasks \ {i} : tpc[j] \in {"call", "post"}}
       ELSE UNCHANGED <<quota_exhausted, runningAtTrip, self_quota_exhausted>>
    /\ UNCHANGED <<prompts_data, max_concurrent, results, bpc, fstate, tattempt, tcalls, tsleeps, tres, sawOpen, overtime,
                   acSnapshot, acQueue>>
    /\ UNCHANGED <<retryVars, promptVars, audioVars, runVars, regenVars,
                   earlier_trip, startedAfterQuota, lateCalls, quota_status>>

\* src/app.py:957, the task returns and its future becomes finished, or
\* the exception of src/app.py:950 leaves the task and its future fails;
\* as_completed, once started, is told in finishing order.
FinishImage(i) ==
    /\ tpc[i] \in {"return", "raised"}
    /\ tpc' = [tpc EXCEPT ![i] = "done"]
    /\ fstate' = [fstate EXCEPT ![i] =
                     IF tpc[i] = "raised" THEN "failed" ELSE "finished"]
    /\ acQueue' = IF bpc = "collect" THEN Append(acQueue, i) ELSE acQueue
    /\ UNCHANGED <<prompts_data, max_concurrent, quota_exhausted, results, bpc,
                   tattempt, tcalls, tsleeps, tres, sawOpen,
                   overtime, acSnapshot, runningAtTrip>>
    /\ UNCHANGED nonImageVars

\* src/app.py:968, as_completed starts: the futures already done are yielded
\* first, in no particular order; with no future at all the loop is over.
AsCompletedStarts ==
    /\ bpc = "submitted"
    /\ bpc' = IF Tasks = {} THEN "shutdown" ELSE "collect"
    /\ acSnapshot' = {i \in Tasks : Done(i)}
    /\ acQueue' = <<>>
    /\ UNCHANGED <<prompts_data, max_concurrent, quota_exhausted, results,
                   fstate, tpc, tattempt, tcalls, tsleeps, tres,
                   sawOpen, overtime, runningAtTrip>>
    /\ UNCHANGED nonImageVars

\* The futures as_completed may yield next.
NextYield ==
    IF acSnapshot # {} THEN acSnapshot
    ELSE IF acQueue # <<>> THEN {Head(acQueue)} ELSE {}

\* src/app.py:970-971 and 980-982: future.result(timeout=180) of a yielded
\* future, and the entry it puts in the result map.
Collected(i) ==
    IF fstate[i] = "finished" THEN tres[i] ELSE FutureErrorResult

\* src/app.py:974-978: with the flag set the collector cancels what has not
\* started and leaves the loop.
StopsCollecting(flag) == flag

\* src/app.py:968-982, one round of the collection loop
CollectImage(i) ==
    /\ bpc = "collect"
    /\ i \in NextYield
    /\ results' = (KeyOf(i) :> Collected(i)) @@ results
    /\ LET snap == acSnapshot \ {i}
           queue == IF i \in acSnapshot THEN acQueue ELSE Tail(acQueue)
           yielded == Cardinality(DOMAIN results') 
       IN  IF fstate[i] = "finished" /\ StopsCollecting(quota_exhausted)
           THEN /\ fstate' = [j \in Tasks |->
                                IF fstate[j] = "pending" THEN "cancelled"
                                ELSE fstate[j]]
                /\ bpc' = "shutdown"
                /\ acSnapshot' = {}
                /\ acQueue' = <<>>
           ELSE /\ UNCHANGED fstate
                /\ bpc' = IF snap = {} /\ queue = <<>>
                             /\ \A j \in Tasks : Done(j)
                             /\ yielded = Len(prompts_data)
                          THEN "shutdown" ELSE "collect"
                /\ acSnapshot' = snap
                /\ acQueue' = queue
    /\ UNCHANGED <<prompts_data, max_concurrent, quota_exhausted, tpc, tattempt, tcalls, tsleeps, tres, sawOpen, overtime,
                   runningAtTrip>>
    /\ UNCHANGED nonImageVars

\* PoolDrained of a `with` block that waits for its cancelled futures to run
PoolDrained_WaitsForCancelled ==
    \A i \in Tasks : fstate[i] \in {"finished", "failed"}

\* PoolDrained of an executor that is shut down without waiting
PoolDrained_NoWait == TRUE

\* src/app.py:960, the exit of `with ThreadPoolExecutor(...)` is
\* shutdown(wait=True): it returns when no future is queued or running.
PoolDrained == \A i \in Tasks : fstate[i] \notin {"pending", "running"}

\* src/app.py:960 and 984: leaving the `with` block waits for the pool
\* threads, then the result map is returned.
ImageBatchReturns ==
    /\ bpc = "shutdown"
    /\ PoolDrained
    /\ bpc' = "returned"
    /\ UNCHANGED <<prompts_data, max_concurrent, quota_exhausted, results,
                   fstate, tpc, tattempt, tcalls, tsleeps, tres,
                   sawOpen, overtime, acSnapshot, acQueue, runningAtTrip>>
    /\ UNCHANGED nonImageVars

(***************************************************************************)
(* The prompt batch: generate_all_prompts_parallel (src/app.py:986-1046)   *)
(***************************************************************************)
RunPages == 1          \* a run of create_storybook writes 1..RunPages pages

\* src/app.py:1023, ThreadPoolExecutor(max_workers=5)
PromptPool == 5
\* src/app.py:670 and 1496, @api_retry(max_retries=2, retry_on_quota=True)
PromptMaxRetries == 2

\* src/app.py:1012-1017 and 1458-1464: one task per page, then the cover
BatchKey(i) == IF i <= Len(pages) THEN i ELSE CoverKey
BatchTasks == 1..(Len(pages) + 1)

\* src/app.py:728-795: the prompt the text service wrote for key k, or the
\* default prompt built from the page text when the service call failed
GeneratedPrompt(k) == <<"generated", k>>
DefaultPrompt(k) == <<"default", k>>
NoPrompt == <<"none", CoverKey>>

PromptIdle ==
    /\ ppc = "idle"
    /\ pfstate = <<>>
    /\ pcalls = <<>>
    /\ pprompt = <<>>
    /\ pSnapshot = {}
    /\ pQueue = <<>>

\* src/app.py:1008-1028, the task list, the empty prompts_data and the
\* submission of every task
BeginPromptBatch ==
    /\ stage = "prompts"
    /\ ppc = "idle"
    /\ ppc' = "submitted"
    /\ prompts_data' = <<>>
    /\ pfstate' = [i \in BatchTasks |-> "pending"]
    /\ pcalls' = [i \in BatchTasks |-> 0]
    /\ pprompt' = [i \in BatchTasks |-> NoPrompt]
    /\ pSnapshot' = {}
    /\ pQueue' = <<>>
    /\ UNCHANGED nonPromptVars

\* A pool thread takes the oldest queued prompt task.
StartPrompt(i) ==
    /\ pfstate[i] = "pending"
    /\ \A j \in 1..(i - 1) : pfstate[j] # "pending"
    /\ Cardinality({j \in DOMAIN pfstate : pfstate[j] = "running"}) < PromptPool
    /\ pfstate' = [pfstate EXCEPT ![i] = "running"]
    /\ UNCHANGED <<prompts_data, ppc, pcalls, pprompt, pSnapshot, pQueue>>
    /\ UNCHANGED nonPromptVars

\* PromptReturn of a prompt function that reports a failed service call to
\* its wrapper as a failure result
PromptReturn_ReportsFailure(ok) ==
    IF ok THEN PlainOutcome ELSE Outcome("fail", {"timeout"}, NoError)

\* src/app.py:765, 788, 795 (pages) and 1572, 1598, 1605 (cover): what the
\* wrapped function hands to its wrapper is a string, the written prompt
\* or, from its own except branch, the default prompt
PromptReturn(ok) == PlainOutcome

\* src/app.py:988-999 with 728-795 (pages) and 1544-1605 (cover): one
\* invocation of the text service inside the wrapper of the prompt function
\* (api_retry(max_retries=2, retry_on_quota=True), 670 and 1496); the task
\* ends when the wrapper returns.
GeneratePrompt(i, ok) ==
    /\ pfstate[i] = "running"
    /\ pcalls[i] \in AttemptRange(PromptMaxRetries)
    /\ pcalls' = [pcalls EXCEPT ![i] = @ + 1]
    /\ pprompt' = [pprompt EXCEPT ![i] =
                      IF ok THEN GeneratedPrompt(BatchKey(i))
                      ELSE DefaultPrompt(BatchKey(i))]
    /\ IF WrapperRetries(PromptReturn(ok), pcalls[i], PromptMaxRetries, TRUE)
       THEN UNCHANGED <<pfstate, pQueue>>
       ELSE /\ pfstate' = [pfstate EXCEPT ![i] = "finished"]
            /\ pQueue' = IF ppc = "collect" THEN Append(pQueue, i) ELSE pQueue
    /\ UNCHANGED <<prompts_data, ppc, pSnapshot>>
    /\ UNCHANGED nonPromptVars

\* src/app.py:1031, as_completed starts
PromptAsCompletedStarts ==
    /\ ppc = "submitted"
    /\ ppc' = "collect"
    /\ pSnapshot' = {i \in DOMAIN pfstate : pfstate[i] = "finished"}
    /\ pQueue' = <<>>
    /\ UNCHANGED <<prompts_data, pfstate, pcalls, pprompt>>
    /\ UNCHANGED nonPromptVars

PromptNextYield ==
    IF pSnapshot # {} THEN pSnapshot
    ELSE IF pQueue # <<>> THEN {Head(pQueue)} ELSE {}

\* src/app.py:1033-1034, the entry appended for a yielded future
PromptEntryOf(i) == [key |-> BatchKey(i), prompt |-> pprompt[i]]

\* AppendedFor of a collector that drops a unit that fell back to its default
AppendedFor_DropsDefault(i) ==
    IF pprompt[i] = DefaultPrompt(BatchKey(i)) THEN <<>> ELSE <<PromptEntryOf(i)>>

\* src/app.py:1034 and 1043: what one round appends to prompts_data; the
\* try branch and the except branch both append one entry.
AppendedFor(i) == <<PromptEntryOf(i)>>

\* src/app.py:1031-1046, one round of the collection loop; after the last
\* future the list is returned.
CollectPrompt(i) ==
    /\ ppc = "collect"
    /\ i \in PromptNextYield
    /\ prompts_data' = prompts_data \o AppendedFor(i)
    /\ pSnapshot' = pSnapshot \ {i}
    /\ pQueue' = IF i \in pSnapshot THEN pQueue ELSE Tail(pQueue)
    /\ ppc' = IF /\ \A j \in DOMAIN pfstate : pfstate[j] = "finished"
                 /\ pSnapshot' = {} /\ pQueue' = <<>>
              THEN "returned" ELSE "collect"
    /\ UNCHANGED <<pfstate, pcalls, pprompt>>
    /\ UNCHANGED nonPromptVars

(***************************************************************************)
(* The audio batch: generate_audio_parallel (src/app.py:1441-1494)         *)
(***************************************************************************)
\* src/app.py:1470, ThreadPoolExecutor(max_workers=3)
AudioPool == 3
\* src/app.py:1386, @api_retry(max_retries=3, retry_on_quota=False)
AudioMaxRetries == 3
AudioRetryOnQuota == FALSE

\* src/app.py:1420-1425, 1395, 1429 and 1434: results of the body of
\* text_to_speech
AudioErrorTexts == {{}, {"timeout"}}
AudioOutcomes == {OkOutcome} \cup {Outcome("fail", t, NoError) : t \in AudioErrorTexts}

AudioIdle ==
    /\ audio_results = EmptyMap
    /\ apc = "idle"
    /\ afstate = <<>>
    /\ aattempt = <<>>
    /\ ares = <<>>
    /\ aSnapshot = {}
    /\ aQueue = <<>>

\* src/app.py:1454-1475, the task list, the empty result map and the
\* submission of every task
BeginAudioBatch ==
    /\ apc = "idle"
    /\ audio_results' = EmptyMap
    /\ apc' = "submitted"
    /\ afstate' = [i \in BatchTasks |-> "pending"]
    /\ aattempt' = [i \in BatchTasks |-> 0]
    /\ ares' = [i \in BatchTasks |-> NoOutcome]
    /\ aSnapshot' = {}
    /\ aQueue' = <<>>

\* A pool thread takes the oldest queued audio task.
StartAudio(i) ==
    /\ afstate[i] = "pending"
    /\ \A j \in 1..(i - 1) : afstate[j] # "pending"
    /\ Cardinality({j \in DOMAIN afstate : afstate[j] = "running"}) < AudioPool
    /\ afstate' = [afstate EXCEPT ![i] = "running"]
    /\ UNCHANGED <<audio_results, apc, aattempt, ares, aSnapshot, aQueue>>
    /\ UNCHANGED nonAudioVars

\* src/app.py:1443-1452: one invocation of the speech service inside the
\* wrapper of text_to_speech, then the wrapper's decision; when the wrapper
\* returns, the task returns and its future is finished.
InvokeSpeech(i, res) ==
    /\ afstate[i] = "running"
    /\ aattempt[i] \in AttemptRange(AudioMaxRetries)
    /\ IF WrapperRetries(res, aattempt[i], AudioMaxRetries, AudioRetryOnQuota)
          /\ aattempt[i] + 1 \in AttemptRange(AudioMaxRetries)
       THEN /\ aattempt' = [aattempt EXCEPT ![i] = @ + 1]
            /\ UNCHANGED <<ares, afstate, aQueue>>
       ELSE /\ ares' = [ares EXCEPT ![i] =
                          IF WrapperRetries(res, aattempt[i], AudioMaxRetries,
                                            AudioRetryOnQuota)
                          THEN AllRetriesFailed ELSE res]
            /\ aattempt' = [aattempt EXCEPT ![i] = 0]
            /\ afstate' = [afstate EXCEPT ![i] = "finished"]
            /\ aQueue' = IF apc = "collect" THEN Append(aQueue, i) ELSE aQueue
    /\ UNCHANGED <<audio_results, apc, aSnapshot>>
    /\ UNCHANGED nonAudioVars

\* src/app.py:1478, as_completed starts
AudioAsCompletedStarts ==
    /\ apc = "submitted"
    /\ apc' = "collect"
    /\ aSnapshot' = {i \in DOMAIN afstate : afstate[i] = "finished"}
    /\ aQueue' = <<>>
    /\ UNCHANGED <<audio_results, afstate, aattempt, ares>>
    /\ UNCHANGED nonAudioVars

AudioNextYield ==
    IF aSnapshot # {} THEN aSnapshot
    ELSE IF aQueue # <<>> THEN {Head(aQueue)} ELSE {}

\* src/app.py:1478-1494, one round of the collection loop; after the last
\* one the result map is returned.
CollectAudio(i) ==
    /\ apc = "collect"
    /\ i \in AudioNextYield
    /\ audio_results' = (BatchKey(i) :> ares[i]) @@ audio_results
    /\ aSnapshot' = aSnapshot \ {i}
    /\ aQueue' = IF i \in aSnapshot THEN aQueue ELSE Tail(aQueue)
    /\ apc' = IF aSnapshot' = {} /\ aQueue' = <<>>
                 /\ \A j \in DOMAIN afstate : afstate[j] = "finished"
                 /\ Cardinality(DOMAIN audio_results') = Len(afstate)
              THEN "returned" ELSE "collect"
    /\ UNCHANGED <<afstate, aattempt, ares>>
    /\ UNCHANGED nonAudioVars

(***************************************************************************)
(* The run: create_storybook (src/app.py:1048-1189)                        *)
(***************************************************************************)
\* src/app.py:319 and 464, @api_retry(max_retries=3, retry_on_quota=True)
StageMaxRetries == 3
StageRetryOnQuota == TRUE
\* src/app.py:1097, generate_images_parallel(prompts_data, 5)
RunImagePool == 5

\* src/app.py:448-462 and 556-571: results of the body of a stage call
StageErrorTexts == {{}, {"timeout"}}
StageOutcomes == {OkOutcome} \cup {Outcome("fail", t, NoError) : t \in StageErrorTexts}

None == <<>>
Some(v) == <<v>>

NotReturned ==
    [success |-> FALSE, result |-> NoOutcome, storybook |-> None,
     generation_stats |-> None]

\* src/app.py:1062 and 1070, `return structure_result` / `return pages_result`
StageFailure(res) ==
    [success |-> FALSE, result |-> res, storybook |-> None,
     generation_stats |-> None]

RunIdle ==
    /\ stage = "idle"
    /\ sattempt = 0
    /\ structure_called = FALSE
    /\ pages_called = FALSE
    /\ structure_result = NoOutcome
    /\ pages_result = NoOutcome
    /\ pages = <<>>
    /\ run_ret = NotReturned
    /\ current_storybook = None

\* src/app.py:1048-1059, create_storybook is called
CallCreateStorybook ==
    /\ stage = "idle"
    /\ stage' = "structure"
    /\ UNCHANGED <<sattempt, structure_called, pages_called, structure_result,
                   pages_result, pages, run_ret, current_storybook>>
    /\ UNCHANGED <<retryVars, imageVars, promptVars, audioVars, regenVars,
                   earlier_trip, startedAfterQuota, lateCalls, generatorVars>>

\* The result a stage wrapper hands back after an invocation that ends it.
StageResult(res, att) ==
    IF WrapperRetries(res, att, StageMaxRetries, StageRetryOnQuota)
    THEN AllRetriesFailed ELSE res

\* TRUE when the stage wrapper goes round its loop again.
StageContinues(res, att) ==
    /\ WrapperRetries(res, att, StageMaxRetries, StageRetryOnQuota)
    /\ att + 1 \in AttemptRange(StageMaxRetries)

\* StageAborts of a run that lacks the early returns
StageAborts_Never(res) == FALSE

\* src/app.py:1061, `if not structure_result["success"]: return`
\* src/app.py:1069, `if not pages_result["success"]: return`
StageAborts(res) == ~Success(res)

\* StoredAfterAbort of a run that drops the stored storybook when it starts
StoredAfterAbort_Cleared(old) == None

\* src/app.py:1062 and 1070, the early returns come before the only write
\* to self.current_storybook (1170): what is stored stays
StoredAfterAbort(old) == old

\* src/app.py:1060-1064: one invocation of generate_story_structure inside
\* its wrapper; a failed result ends the run.
StructureAttempt(res) ==
    /\ stage = "structure"
    /\ sattempt \in AttemptRange(StageMaxRetries)
    /\ structure_called' = TRUE
    /\ IF StageContinues(res, sattempt)
       THEN /\ sattempt' = sattempt + 1
            /\ UNCHANGED <<stage, run_ret, structure_result, current_storybook>>
       ELSE /\ sattempt' = 0
            /\ structure_result' = StageResult(res, sattempt)
            /\ IF StageAborts(StageResult(res, sattempt))
               THEN /\ stage' = "returned"
                    /\ run_ret' = StageFailure(StageResult(res, sattempt))
                    /\ current_storybook' = StoredAfterAbort(current_storybook)
               ELSE /\ stage' = "pages"
                    /\ UNCHANGED <<run_ret, current_storybook>>
    /\ UNCHANGED <<pages_called, pages_result, pages>>
    /\ UNCHANGED <<retryVars, imageVars, promptVars, audioVars, regenVars,
                   earlier_trip, startedAfterQuota, lateCalls, generatorVars>>

\* src/app.py:1068-1072: one invocation of generate_story_pages inside its
\* wrapper; a failed result ends the run, a successful one gives n pages.
PagesAttempt(res, n) ==
    /\ stage = "pages"
    /\ sattempt \in AttemptRange(StageMaxRetries)
    /\ pages_called' = TRUE
    /\ IF StageContinues(res, sattempt)
       THEN /\ sattempt' = sattempt + 1
            /\ UNCHANGED <<stage, run_ret, pages, pages_result, current_storybook>>
       ELSE /\ sattempt' = 0
            /\ pages_result' = StageResult(res, sattempt)
            /\ IF StageAborts(StageResult(res, sattempt))
               THEN /\ stage' = "returned"
                    /\ run_ret' = StageFailure(StageResult(res, sattempt))
                    /\ current_storybook' = StoredAfterAbort(current_storybook)
                    /\ UNCHANGED pages
               ELSE /\ stage' = "prompts"
                    /\ pages' = [i \in 1..n |-> i]
                    /\ UNCHANGED <<run_ret, current_storybook>>
    /\ UNCHANGED <<structure_called, structure_result>>
    /\ UNCHANGED <<retryVars, imageVars, promptVars, audioVars, regenVars,
                   earlier_trip, startedAfterQuota, lateCalls, generatorVars>>

\* src/app.py:1095-1097, the image batch is handed to the outer pool once
\* the prompt batch has returned
SubmitImagesJob ==
    /\ stage = "prompts"
    /\ ppc = "returned"
    /\ BeginImageBatch(prompts_data, RunImagePool)
    /\ stage' = "media"
    /\ UNCHANGED <<sattempt, structure_called, pages_called, structure_result,
                   pages_result, pages, run_ret, current_storybook>>
    /\ UNCHANGED <<retryVars, promptVars, audioVars, regenVars, generatorVars>>

\* src/app.py:1099, the audio batch is handed to the outer pool
SubmitAudioJob ==
    /\ stage = "media"
    /\ BeginAudioBatch
    /\ UNCHANGED nonAudioVars

\* src/app.py:1134-1135, 1154-1155: dict.get with its default
GetOr(map, k, default) == IF k \in DOMAIN map THEN map[k] ELSE default
MissingResult == Outcome("fail", {}, NoError)

\* src/app.py:1141, 1145: fields read from an image result
ImageData(res) == IF Success(res) THEN "image" ELSE ""
ImageModel(res) == IF Success(res) THEN "gemini-imagen" ELSE "midjourney"

\* src/app.py:1140, the prompt stored with page i
PagePrompt(pd, i) == pd[i].prompt

\* src/app.py:1157, the prompt of the entry flagged is_cover
CoverPrompt(pd) ==
    IF \E j \in 1..Len(pd) : pd[j].key = CoverKey
    THEN pd[CHOOSE j \in 1..Len(pd) : pd[j].key = CoverKey].prompt
    ELSE DefaultPrompt(CoverKey)

\* src/app.py:1131-1151, the entry of page i
PageData(i, pd, all_results, audio) ==
    [page_number |-> i,
     text |-> pages[i],
     image_prompt |-> PagePrompt(pd, i),
     image_data |-> ImageData(GetOr(all_results, i, MissingResult)),
     success |-> Success(GetOr(all_results, i, MissingResult)),
     model |-> ImageModel(GetOr(all_results, i, MissingResult)),
     audio_success |-> Success(GetOr(audio, i, MissingResult))]

\* src/app.py:1154-1168, the cover entry
CoverData(pd, all_results, audio) ==
    [page_number |-> CoverKey,
     text |-> CoverKey,
     image_prompt |-> CoverPrompt(pd),
     image_data |-> ImageData(GetOr(all_results, CoverKey, MissingResult)),
     success |-> Success(GetOr(all_results, CoverKey, MissingResult)),
     model |-> ImageModel(GetOr(all_results, CoverKey, MissingResult)),
     audio_success |-> Success(GetOr(audio, CoverKey, MissingResult))]

\* src/app.py:1073-1083 and 1130-1168, storybook_data
Storybook(pd, all_results, audio) ==
    [pages |-> [i \in 1..Len(pages) |-> PageData(i, pd, all_results, audio)],
     cover |-> CoverData(pd, all_results, audio)]

\* GenerationStats with total_images counted over the successful results
GenerationStats_TotalOfSuccesses(all_results) ==
    LET successful == Cardinality({k \in DOMAIN all_results : Success(all_results[k])})
    IN  [total_images |-> successful,
         successful_images |-> successful,
         failed_images |-> 0,
         quota_exhausted |->
            \E k \in DOMAIN all_results : all_results[k].error_type = QuotaType]

\* src/app.py:1106-1108 and 1177-1182, generation_stats
GenerationStats(all_results) ==
    LET successful == Cardinality({k \in DOMAIN all_results : Success(all_results[k])})
        total == Cardinality(DOMAIN all_results)
    IN  [total_images |-> total,
         successful_images |-> successful,
         failed_images |-> total - successful,
         quota_exhausted |->
            \E k \in DOMAIN all_results : all_results[k].error_type = QuotaType]

\* src/app.py:1103-1104, both image_future.result() and
\* audio_future.result() have returned
MediaJoined == bpc = "returned" /\ apc = "returned"

\* src/app.py:1140, prompts_data[i][1] raises IndexError when the list is
\* shorter than the pages; every other lookup of the assembly has a default.
AssemblyRaises(pd, n) == \E i \in 1..n : i \notin DOMAIN pd

\* src/app.py:1103-1189: with both batches back, the artifact is assembled,
\* stored as the current storybook and returned with the statistics; an
\* exception of the assembly leaves create_storybook with nothing returned.
AssembleStorybook ==
    /\ stage = "media"
    /\ MediaJoined
    /\ IF AssemblyRaises(prompts_data, Len(pages))
       THEN /\ stage' = "raised"
            /\ UNCHANGED <<current_storybook, run_ret>>
       ELSE /\ stage' = "returned"
            /\ current_storybook' =
                  Some(Storybook(prompts_data, results, audio_results))
            /\ run_ret' =
                  [success |-> TRUE, result |-> OkOutcome,
                   storybook |-> Some(Storybook(prompts_data, results, audio_results)),
                   generation_stats |-> Some(GenerationStats(results))]
    /\ UNCHANGED <<sattempt, structure_called, pages_called, structure_result,
                   pages_result, pages>>
    /\ UNCHANGED <<retryVars, imageVars, promptVars, audioVars, regenVars,
                   earlier_trip, startedAfterQuota, lateCalls, generatorVars>>

(***************************************************************************)
(* Regeneration: api_regenerate_images and regenerate_failed_images        *)
(* (src/app.py:1934-1956, 1191-1277)                                       *)
(***************************************************************************)
RegenPages == 2        \* a stored storybook has 1..RegenPages pages

\* The image bytes of a regenerated image, which differ from the stored ones.
RegeneratedImage == "regenerated image"

\* An entry as the assembly leaves it (src/app.py:1137-1149, 1158-1168).
BookEntry(k, ok) ==
    [page_number |-> k,
     text |-> k,
     image_prompt |-> GeneratedPrompt(k),
     image_data |-> ImageData(IF ok THEN ImageSuccess ELSE MissingResult),
     success |-> ok,
     model |-> ImageModel(IF ok THEN ImageSuccess ELSE MissingResult),
     audio_success |-> TRUE]

\* The storybooks a completed run may have stored, by the success flags of
\* their pages and cover; story_structure tells whether the structure the
\* run parsed (src/app.py:582, 1080) is a non-empty dict.
Books ==
    UNION {{[pages |-> [i \in 1..n |-> BookEntry(i, oks[i])],
             cover |-> BookEntry(CoverKey, c),
             story_structure |-> st] :
                oks \in [1..n -> BOOLEAN], c \in BOOLEAN, st \in BOOLEAN} :
           n \in 1..RegenPages}

\* The values of failed_pages in a request: absent, or a list of numbers.
Filters == {None} \cup {Some(f) : f \in SUBSET (0..RegenPages)}

RegenIdle ==
    /\ gpc = "idle"
    /\ failed_page_numbers = None
    /\ pages_to_regenerate = <<>>
    /\ gidx = 0
    /\ gattempt = 0
    /\ regenerated_results = EmptyMap
    /\ regen_ret = [success |-> FALSE, regenerated |-> 0, total_attempted |-> 0,
                    updated_storybook |-> None]
    /\ book_before = None
    /\ in_flight = 0
    /\ invoked = {}

\* Selected of a selection that takes every entry the filter names
Selected_NamedRegardless(entry, filter) ==
    IF filter = None THEN ~entry.success ELSE entry.page_number \in filter[1]

\* src/app.py:1207 and 1217, the test that makes an entry a target
Selected(entry, filter) ==
    ~entry.success /\ (filter = None \/ entry.page_number \in filter[1])

\* src/app.py:1202-1223, pages_to_regenerate: the selected pages in page
\* order, then the cover
Targets(book, filter) ==
    LET sel == SelectSeq(book.pages, LAMBDA e : Selected(e, filter))
    IN  [j \in 1..Len(sel) |-> sel[j].page_number]
        \o (IF Selected(book.cover, filter) THEN <<CoverKey>> ELSE <<>>)

\* What the endpoint answers when nothing is regenerated or the call fails
RegenAnswer(ok) ==
    [success |-> ok, regenerated |-> 0, total_attempted |-> 0,
     updated_storybook |-> None]

\* src/app.py:1193-1199, the early returns of regenerate_failed_images
\* (the endpoint has its own test of the storybook at 1941)
RefusesBook(book) == book = None \/ ~book[1].story_structure

\* src/app.py:1938-1947 and 1193-1228: the request arrives; without a
\* current storybook, without a story structure in it, or without a target,
\* the call is answered at once.
CallRegenerate(filter) ==
    /\ gpc = "idle"
    /\ stage \in {"idle", "returned"}
    /\ failed_page_numbers' = filter
    /\ book_before' = current_storybook
    /\ IF RefusesBook(current_storybook)
       THEN /\ gpc' = "returned"
            /\ regen_ret' = RegenAnswer(FALSE)
            /\ UNCHANGED <<pages_to_regenerate, gidx>>
       ELSE /\ pages_to_regenerate' = Targets(current_storybook[1], filter)
            /\ IF Targets(current_storybook[1], filter) = <<>>
               THEN /\ gpc' = "returned"
                    /\ regen_ret' = RegenAnswer(TRUE)
                    /\ UNCHANGED gidx
               ELSE /\ gpc' = "generate"
                    /\ gidx' = 1
                    /\ UNCHANGED regen_ret
    /\ invoked' = {}
    /\ UNCHANGED <<gattempt, regenerated_results, current_storybook, in_flight>>
    /\ UNCHANGED nonRegenVars

\* LoopAfter of a loop that gives up its remaining targets on a quota failure
LoopAfter_BreaksOnQuota(result, i, n) ==
    IF i = n \/ TripsBreaker(result) THEN "update" ELSE "generate"

\* src/app.py:1232-1241, the for loop goes on to its next target whatever
\* the result was, and ends after the last one
LoopAfter(result, i, n) == IF i = n THEN "update" ELSE "generate"

\* CallSite of a loop that hands the call to a pool and goes on
CallSite_Submitted == "generate"

\* src/app.py:1240, a plain call: the loop is inside generate_image_gemini
\* until it returns
CallSite == "calling"

\* src/app.py:1232-1240, the loop calls generate_image_gemini for the target
\* in hand (or its wrapper calls it again after a wait).
RegenCall ==
    /\ gpc = "generate"
    /\ gattempt \in AttemptRange(ImageMaxRetries)
    /\ gpc' = CallSite
    /\ in_flight' = in_flight + 1
    /\ invoked' = invoked \cup {pages_to_regenerate[gidx]}
    /\ UNCHANGED <<failed_page_numbers, pages_to_regenerate, gidx, gattempt,
                   regenerated_results, regen_ret, book_before, current_storybook>>
    /\ UNCHANGED nonRegenVars

\* src/app.py:1240-1241, the invocation of the image service ends inside the
\* wrapper of generate_image_gemini, which retries or hands the result to
\* the loop; an exception that the wrapper lets through ends the call in
\* the endpoint's except branch (src/app.py:1955-1956).
RegenInvoke(res) ==
    /\ gpc = "calling"
    /\ in_flight' = in_flight - 1
    /\ gattempt \in AttemptRange(ImageMaxRetries)
    /\ LET t == pages_to_regenerate[gidx]
           again == WrapperRetries(res, gattempt, ImageMaxRetries, ImageRetryOnQuota)
           result == IF again THEN AllRetriesFailed ELSE res
       IN  IF again /\ gattempt + 1 \in AttemptRange(ImageMaxRetries)
           THEN /\ gattempt' = gattempt + 1
                /\ gpc' = "generate"
                /\ UNCHANGED <<gidx, regenerated_results, regen_ret>>
           ELSE IF result.kind = "raise"
           THEN /\ gpc' = "returned"
                /\ regen_ret' = RegenAnswer(FALSE)
                /\ gattempt' = 0
                /\ UNCHANGED <<gidx, regenerated_results>>
           ELSE /\ regenerated_results' = (t :> result) @@ regenerated_results
                /\ gattempt' = 0
                /\ gidx' = gidx + 1
                /\ gpc' = LoopAfter(result, gidx, Len(pages_to_regenerate))
                /\ UNCHANGED regen_ret
    /\ UNCHANGED <<failed_page_numbers, pages_to_regenerate, book_before,
                   current_storybook, invoked>>
    /\ UNCHANGED nonRegenVars

\* UpdateEntry of an update that rebuilds the entry from the image result
UpdateEntry_Rebuilt(entry) ==
    [entry EXCEPT !.image_data = RegeneratedImage,
                  !.success = TRUE,
                  !.model = "gemini-imagen",
                  !.image_prompt = NoPrompt,
                  !.audio_success = FALSE]

\* src/app.py:1254-1258 and 1263-1267, dict.update of a regenerated entry
UpdateEntry(entry) ==
    [entry EXCEPT !.image_data = RegeneratedImage,
                  !.success = TRUE,
                  !.model = "gemini-imagen"]

\* Regenerated of an update loop that does not test the result
Regenerated_AnyResult(targets, rr) ==
    {targets[j] : j \in 1..Len(targets)}

\* The successfully regenerated targets (src/app.py:1245-1250)
Regenerated(targets, rr) ==
    {targets[j] : j \in {j \in 1..Len(targets) : Success(rr[targets[j]])}}

\* src/app.py:1261-1268, the first page with the target's number is updated
UpdatesPage(book, i, targets, rr) ==
    /\ book.pages[i].page_number \in Regenerated(targets, rr) \ {CoverKey}
    /\ \A j \in 1..(i - 1) : book.pages[j].page_number # book.pages[i].page_number

\* src/app.py:1243-1268, the storybook after the update loop
Updated(book, targets, rr) ==
    [book EXCEPT
       !.pages = [i \in DOMAIN book.pages |->
                     IF UpdatesPage(book, i, targets, rr)
                     THEN UpdateEntry(book.pages[i]) ELSE book.pages[i]],
       !.cover = IF CoverKey \in Regenerated(targets, rr)
                 THEN UpdateEntry(book.cover) ELSE book.cover]

\* src/app.py:1243-1277 and 1949-1953: the entries are updated in place,
\* the call returns and the endpoint stores the updated storybook.
RegenUpdate ==
    /\ gpc = "update"
    /\ gpc' = "returned"
    /\ current_storybook' =
          Some(Updated(current_storybook[1], pages_to_regenerate,
                       regenerated_results))
    /\ regen_ret' =
          [success |-> TRUE,
           regenerated |->
              Cardinality(Regenerated(pages_to_regenerate, regenerated_results)),
           total_attempted |-> Len(pages_to_regenerate),
           updated_storybook |-> current_storybook']
    /\ UNCHANGED <<failed_page_numbers, pages_to_regenerate, gidx, gattempt,
                   regenerated_results, book_before, in_flight, invoked>>
    /\ UNCHANGED nonRegenVars

\* The request has been answered; the endpoint is ready for the next one.
RegenAnswered ==
    /\ gpc = "returned"
    /\ gpc' = "idle"
    /\ failed_page_numbers' = None
    /\ pages_to_regenerate' = <<>>
    /\ gidx' = 0
    /\ regenerated_results' = EmptyMap
    /\ regen_ret' = RegenAnswer(FALSE)
    /\ book_before' = None
    /\ invoked' = {}
    /\ UNCHANGED <<gattempt, current_storybook, in_flight>>
    /\ UNCHANGED nonRegenVars

(***************************************************************************)
(* Specifications                                                          *)
(***************************************************************************)
\* One call of an api_retry-wrapped function, for every configuration.
RetryStart == RetryInit /\ GeneratorIdle /\ ImageIdle /\ PromptIdle /\ AudioIdle /\ RunIdle /\ RegenIdle

RetryNext == \E res \in Outcomes : WrapperAttempt(res)

SpecRetry == RetryStart /\ [][RetryNext]_vars

\* One call of a wrapped function for every delay, backoff and jitter; the
\* unit of work succeeds, fails for good, or fails with a transient error
\* that is returned or raised.
BackoffOutcomes ==
    {OkOutcome, Outcome("fail", {}, NoError),
     Outcome("fail", {"timeout"}, NoError), Outcome("raise", {"timeout"}, NoError)}

BackoffInit ==
    /\ max_retries \in 0..MaxRetries
    /\ retry_on_quota \in BOOLEAN
    /\ delay \in 1..MaxDelay
    /\ backoff \in 1..MaxBackoff
    /\ jitter \in BOOLEAN
    /\ wait_time = 0
    /\ attempt = 0
    /\ rpc = "loop"
    /\ calls = 0
    /\ sleeps = 0
    /\ last_exception = NoOutcome
    /\ first = NoOutcome
    /\ ret = NoOutcome
    /\ GeneratorIdle /\ ImageIdle /\ PromptIdle /\ AudioIdle /\ RunIdle /\ RegenIdle

BackoffNext == \E res \in BackoffOutcomes : WrapperAttempt(res)

SpecBackoff == BackoffInit /\ [][BackoffNext]_vars

\* One image batch on its own, for every story length and pool size.
ImagesInit == RetryIdle /\ GeneratorIdle /\ ImageIdle /\ PromptIdle /\ AudioIdle /\ RunIdle /\ RegenIdle

\* generate_images_parallel(prompts_data, max_concurrent) is called
CallImageBatch(n, mc) ==
    /\ stage = "idle"
    /\ BeginImageBatch(OrderedPrompts(n), mc)
    /\ UNCHANGED <<retryVars, promptVars, audioVars, runVars, regenVars, generatorVars>>

ImagesNext ==
    \/ \E n \in 1..MaxPages, mc \in 1..MaxPool : CallImageBatch(n, mc)
    \/ \E i \in Tasks : StartImage(i)
    \/ \E i \in Tasks : CheckBreaker(i)
    \/ \E i \in Tasks, res \in ImageOutcomes : InvokeImage(i, res)
    \/ \E i \in Tasks : ImageCallOverruns(i)
    \/ \E i \in Tasks : RecordQuota(i)
    \/ \E i \in Tasks : FinishImage(i)
    \/ AsCompletedStarts
    \/ \E i \in Tasks : CollectImage(i)
    \/ ImageBatchReturns

SpecImages == ImagesInit /\ [][ImagesNext]_vars

\* One run of create_storybook. Call durations are not followed here, and
\* the media services end each invocation in success, in a failure that is
\* not retried, or (images) in a quota failure, which then meets the task's
\* retries as well.
RunImageOutcomes == {ImageSuccess, ImageQuotaFailure, ImageFailure({}), ImageRaise}
RunImageOutcomesAt(i) ==
    IF tattempt[i] > 0 THEN {ImageQuotaFailure} ELSE RunImageOutcomes
RunAudioOutcomes ==
    {OkOutcome, Outcome("fail", {}, NoError), Outcome("fail", {"quota"}, NoError)}

RunInit == RetryIdle /\ GeneratorIdle /\ ImageIdle /\ PromptIdle /\ AudioIdle /\ RunIdle /\ RegenIdle

RunNext ==
    \/ CallCreateStorybook
    \/ \E res \in StageOutcomes : StructureAttempt(res)
    \/ \E res \in StageOutcomes, n \in 1..RunPages : PagesAttempt(res, n)
    \/ BeginPromptBatch
    \/ \E i \in DOMAIN pfstate : StartPrompt(i)
    \/ \E i \in DOMAIN pfstate, ok \in BOOLEAN : GeneratePrompt(i, ok)
    \/ PromptAsCompletedStarts
    \/ \E i \in DOMAIN pfstate : CollectPrompt(i)
    \/ SubmitImagesJob
    \/ SubmitAudioJob
    \/ \E i \in Tasks : StartImage(i)
    \/ \E i \in Tasks : CheckBreaker(i)
    \/ \E i \in Tasks : \E res \in RunImageOutcomesAt(i) : InvokeImage(i, res)
    \/ \E i \in Tasks : RecordQuota(i)
    \/ \E i \in Tasks : FinishImage(i)
    \/ AsCompletedStarts
    \/ \E i \in Tasks : CollectImage(i)
    \/ ImageBatchReturns
    \/ \E i \in DOMAIN afstate : StartAudio(i)
    \/ \E i \in DOMAIN afstate, res \in RunAudioOutcomes : InvokeSpeech(i, res)
    \/ AudioAsCompletedStarts
    \/ \E i \in DOMAIN afstate : CollectAudio(i)
    \/ AssembleStorybook

SpecRun == RunInit /\ [][RunNext]_vars

\* The same run when every remote call returns and every thread that can
\* take a step is scheduled: the run does not stop while a step is possible.
\* What the services answer is narrowed to what steers the run: a stage
\* succeeds or fails, an image call succeeds, meets the quota or raises,
\* and the prompt and speech calls succeed; the interleavings are all kept.
LiveImageOutcomesAt(i) ==
    IF tattempt[i] > 0 THEN {ImageQuotaFailure}
    ELSE {ImageSuccess, ImageQuotaFailure, ImageRaise}

RunLiveNext ==
    \/ CallCreateStorybook
    \/ \E res \in StageOutcomes : StructureAttempt(res)
    \/ \E res \in StageOutcomes, n \in 1..RunPages : PagesAttempt(res, n)
    \/ BeginPromptBatch
    \/ \E i \in DOMAIN pfstate : StartPrompt(i)
    \/ \E i \in DOMAIN pfstate : GeneratePrompt(i, TRUE)
    \/ PromptAsCompletedStarts
    \/ \E i \in DOMAIN pfstate : CollectPrompt(i)
    \/ SubmitImagesJob
    \/ SubmitAudioJob
    \/ \E i \in Tasks : StartImage(i)
    \/ \E i \in Tasks : CheckBreaker(i)
    \/ \E i \in Tasks : \E res \in LiveImageOutcomesAt(i) : InvokeImage(i, res)
    \/ \E i \in Tasks : RecordQuota(i)
    \/ \E i \in Tasks : FinishImage(i)
    \/ AsCompletedStarts
    \/ \E i \in Tasks : CollectImage(i)
    \/ ImageBatchReturns
    \/ \E i \in DOMAIN afstate : StartAudio(i)
    \/ \E i \in DOMAIN afstate : InvokeSpeech(i, OkOutcome)
    \/ AudioAsCompletedStarts
    \/ \E i \in DOMAIN afstate : CollectAudio(i)
    \/ AssembleStorybook

SpecRunLive == RunInit /\ [][RunLiveNext]_vars /\ WF_vars(RunLiveNext)

\* The storybook an earlier run left: one page, whose image succeeded,
\* and a cover whose image failed.
PreviousBook ==
    [pages |-> <<BookEntry(1, TRUE)>>,
     cover |-> BookEntry(CoverKey, FALSE),
     story_structure |-> TRUE]

\* A run on a generator that holds nothing or the storybook of an earlier
\* run (src/app.py:296 and 1170).
StoredInit ==
    /\ RetryIdle /\ GeneratorIdle /\ ImageIdle /\ PromptIdle /\ AudioIdle /\ RegenIdle
    /\ stage = "idle"
    /\ sattempt = 0
    /\ structure_called = FALSE
    /\ pages_called = FALSE
    /\ structure_result = NoOutcome
    /\ pages_result = NoOutcome
    /\ pages = <<>>
    /\ run_ret = NotReturned
    /\ current_storybook \in {None, Some(PreviousBook)}

SpecStored == StoredInit /\ [][RunLiveNext]_vars

\* src/app.py:1958-1972, the quota-status endpoint answers with the
\* attribute of the generator
CheckQuotaStatus ==
    /\ quota_status' = Some([quota_exhausted |-> self_quota_exhausted])
    /\ UNCHANGED self_quota_exhausted
    /\ UNCHANGED <<retryVars, imageVars, promptVars, audioVars, runVars,
                   regenVars, earlier_trip, startedAfterQuota, lateCalls>>

\* A run of create_storybook with requests to the quota-status endpoint at
\* any time before, during and after it.
QuotaStatusNext == RunLiveNext \/ CheckQuotaStatus

SpecQuotaStatus == RunInit /\ [][QuotaStatusNext]_vars

\* Requests to the regeneration endpoint, one after another, on a generator
\* that holds no storybook or the storybook of a completed run.
RegenOutcomes == ImageOutcomes \cup {ImageRaise}

RegenInit ==
    /\ RetryIdle /\ GeneratorIdle /\ ImageIdle /\ PromptIdle /\ AudioIdle /\ RegenIdle
    /\ stage = "idle"
    /\ sattempt = 0
    /\ structure_called = FALSE
    /\ pages_called = FALSE
    /\ structure_result = NoOutcome
    /\ pages_result = NoOutcome
    /\ pages = <<>>
    /\ run_ret = NotReturned
    /\ current_storybook \in {None} \cup {Some(b) : b \in Books}

RegenNext ==
    \/ \E filter \in Filters : CallRegenerate(filter)
    \/ RegenCall
    \/ \E res \in RegenOutcomes : RegenInvoke(res)
    \/ RegenUpdate
    \/ RegenAnswered

SpecRegen == RegenInit /\ [][RegenNext]_vars

(***************************************************************************)
(* Claims about api_retry (checked under SpecRetry)                        *)
(***************************************************************************)
WrapperDone == rpc \in {"returned", "raised"}

\* C2: one call of a wrapped function invokes the unit of work at most
\* max_retries + 1 times, at least once, and exactly once when the first
\* invocation succeeds or returns a value without a success flag.
C2_InvocationBound ==
    /\ calls <= max_retries + 1
    /\ WrapperDone => calls >= 1
    /\ (WrapperDone /\ first.kind \in {"ok", "plain"}) => calls = 1

\* A call that used every allowed invocation, with at least one retry.
C2_Witness ==
    /\ WrapperDone
    /\ max_retries >= 1
    /\ calls = max_retries + 1

\* error_type 'quota_exhausted' or 'quota' in the error text
IsQuotaFailure(res) ==
    /\ res.kind = "fail"
    /\ (res.error_type = QuotaType \/ ContainsAny(res.text, QuotaKeywords))

\* C7: with retry_on_quota = False a unit of work whose first invocation
\* returns a quota-exhausted failure is invoked exactly once and the wrapper
\* returns that failure without sleeping.
C7_QuotaNotRetried ==
    (rpc # "idle" /\ ~retry_on_quota /\ IsQuotaFailure(first)) =>
        /\ rpc = "returned"
        /\ calls = 1
        /\ sleeps = 0
        /\ ret = first

\* Matches none of the transient, quota or parse patterns of either path.
IsFatal(res) ==
    /\ res.kind \in {"fail", "raise"}
    /\ ~ContainsAny(res.text, Keywords)
    /\ res.error_type # QuotaType

\* C8: a Fatal failure, returned or raised, is never retried: one
\* invocation, no sleep, and the failure itself is returned or raised.
C8_FatalNotRetried ==
    (rpc # "idle" /\ IsFatal(first)) =>
        /\ rpc = (IF first.kind = "raise" THEN "raised" ELSE "returned")
        /\ calls = 1
        /\ sleeps = 0
        /\ ret = first

\* A raised Fatal failure came out of a wrapper that still had retries left.
C8_Witness ==
    /\ rpc = "raised"
    /\ IsFatal(first)
    /\ max_retries >= 1
    /\ calls = 1

\* The same error delivered the other way: raised instead of returned as a
\* success = False result, or returned instead of raised.
OtherPath(res) ==
    Outcome(IF res.kind = "fail" THEN "raise" ELSE "fail", res.text, res.error_type)

\* The wrapper goes on to another invocation after its first one.
RetriedFirst == calls = 1 /\ rpc = "loop" /\ sleeps = 1

\* C16: the retry decision depends only on the error and is the same
\* whether the failure is raised as an exception or returned as a
\* success = False result: after a first invocation that failed with some
\* error text, the wrapper retries exactly when it would retry the same
\* error delivered the other way.
C16_SameDecisionBothPaths ==
    (calls = 1 /\ first.kind \in {"fail", "raise"} /\ first.error_type = NoError) =>
        (RetriedFirst <=>
            WrapperRetries(OtherPath(first), 0, max_retries, retry_on_quota))

\* C20 (checked under SpecBackoff): the wait before the retry that follows
\* attempt k is delay * backoff^k with jitter off and lies between that and
\* 1.1 times that with jitter on; a call that makes n invocations sleeps
\* n - 1 times, never after its final invocation.
C20_BackoffWaits ==
    /\ sleeps >= 1 =>
          LET base == 10 * delay * backoff^(sleeps - 1)
          IN  /\ ~jitter => wait_time = base
              /\ jitter => (base <= wait_time /\ 10 * wait_time <= 11 * base)
    /\ WrapperDone => sleeps = calls - 1
    /\ rpc = "loop" => sleeps = calls

\* A call slept twice, the second time with a jittered wait, and has ended.
C20_Witness ==
    /\ WrapperDone
    /\ sleeps = 2 /\ calls = 3
    /\ delay = 2 /\ backoff = 3 /\ jitter
    /\ wait_time > 10 * delay * backoff

(***************************************************************************)
(* Claims about the image batch (checked under SpecImages)                 *)
(***************************************************************************)
SubmittedKeys == {KeyOf(i) : i \in Tasks}
BatchReturned == bpc = "returned"

\* C1: the returned result map holds exactly one result for each submitted
\* key, whatever the pool size, the outcomes and the completion order.
C1_OneResultPerKey ==
    BatchReturned => DOMAIN results = SubmittedKeys

\* C3: the tasks that were executing their service call when the flag was
\* set run to completion and their results are in the returned result map.
C3_RunningResultsRecorded ==
    BatchReturned =>
        \A i \in runningAtTrip :
            /\ tpc[i] = "done"
            /\ KeyOf(i) \in DOMAIN results
            /\ results[KeyOf(i)] = tres[i]

\* src/app.py:1181, generation_stats["quota_exhausted"]
StatsQuotaExhausted(all_results) ==
    \E k \in DOMAIN all_results : all_results[k].error_type = QuotaType

\* The first task whose image service ended in a quota failure.
QuotaPosition(k) ==
    /\ tres[k] = ImageQuotaFailure
    /\ \A j \in 1..(k - 1) : tres[j] # ImageQuotaFailure

\* C4: with pool size 1, when the task at position k ends with a quota
\* failure, the returned map holds a quota-exhausted result for every later
\* task, the original result of every earlier task, and the run reports
\* quota_exhausted = true.
C4_PoolOneQuota ==
    (BatchReturned /\ max_concurrent = 1) =>
        \A k \in Tasks :
            QuotaPosition(k) =>
                /\ \A j \in (k + 1)..Len(prompts_data) :
                      /\ KeyOf(j) \in DOMAIN results
                      /\ results[KeyOf(j)].error_type = QuotaType
                      /\ ~Success(results[KeyOf(j)])
                /\ \A j \in 1..(k - 1) :
                      /\ KeyOf(j) \in DOMAIN results
                      /\ results[KeyOf(j)] = tres[j]
                /\ quota_exhausted
                /\ StatsQuotaExhausted(results)

\* C6: a task whose service call outlasted the timeout is in the returned
\* result map as a failed result.
C6_TimeoutRecordedAsFailure ==
    BatchReturned =>
        \A i \in Tasks :
            overtime[i] =>
                /\ KeyOf(i) \in DOMAIN results
                /\ ~Success(results[KeyOf(i)])

\* C9: a task that reads the flag after it was set never invokes the image
\* service, never retries or sleeps, and returns the skipped result marked
\* quota_exhausted.
C9_OpenBreakerSkips ==
    \A i \in Tasks :
        sawOpen[i] =>
            /\ tcalls[i] = 0
            /\ tattempt[i] = 0
            /\ tsleeps[i] = 0
            /\ tpc[i] \in {"return", "done"}
            /\ tres[i] = SkippedResult
            /\ ~Success(tres[i]) /\ tres[i].error_type = QuotaType

\* A task was skipped while another task of the batch had called the service.
C9_Witness ==
    \E i, j \in Tasks :
        /\ sawOpen[i] /\ tpc[i] = "done"
        /\ tcalls[j] > 0 /\ tres[j] = ImageQuotaFailure

\* A step that enters generate_images_parallel
BatchBegins == bpc' = "submitted" /\ bpc # "submitted"

\* C14: within one batch the flag only moves from False to True and is
\* never reset; every call of generate_images_parallel starts with the flag
\* False, also after a batch that had set it.
C14_FlagWriteOnce ==
    [][/\ (quota_exhausted /\ ~quota_exhausted') => BatchBegins
       /\ BatchBegins => ~quota_exhausted']_vars

\* A later batch calls the image service although an earlier one tripped.
C14_Witness ==
    /\ earlier_trip
    /\ ~quota_exhausted
    /\ \E i \in Tasks : tcalls[i] > 0 /\ ~sawOpen[i]

\* C17: a task that starts after a quota-failed task of the same batch has
\* completed never calls the image service: its breaker check reads the
\* flag as open and it returns the skipped result.
C17_LateStartersSkipped ==
    \A b \in startedAfterQuota :
        /\ tcalls[b] = 0
        /\ tpc[b] \in {"check", "return", "done"}
        /\ tpc[b] # "check" => (sawOpen[b] /\ tres[b] = SkippedResult)

\* A task started after the quota failure of another and was skipped.
C17_Witness ==
    \E b \in startedAfterQuota :
        /\ tpc[b] = "done" /\ tres[b] = SkippedResult
        /\ QuotaFailedCompleted # {}

(***************************************************************************)
(* Claims about create_storybook (checked under SpecRun)                   *)
(***************************************************************************)
RunReturned == stage = "returned"
Failed(res) == res # NoOutcome /\ ~Success(res)
NoBatchSubmitted == ppc = "idle" /\ bpc = "idle" /\ apc = "idle"

\* The key a prompt was written (or defaulted) for
PromptKey(prompt) == prompt[2]

\* C5: in the assembled artifact the image_prompt of every page entry is the
\* prompt produced for that page's own key, and the cover's image_prompt is
\* the cover's prompt, whatever order the prompt tasks completed in.
C5_PromptsMatchKeys ==
    (RunReturned /\ run_ret.success) =>
        LET sb == run_ret.storybook[1]
        IN  /\ \A i \in DOMAIN sb.pages :
                  PromptKey(sb.pages[i].image_prompt) = sb.pages[i].page_number
            /\ PromptKey(sb.cover.image_prompt) = CoverKey

\* C10: when structure generation ends in failure the run returns that
\* failed result, with no artifact, and page-text generation and the three
\* batches are never started; when page-text generation ends in failure the
\* run returns that failure and no batch is ever started.
C10_StageFailureAborts ==
    /\ Failed(structure_result) =>
          /\ RunReturned
          /\ run_ret = StageFailure(structure_result)
          /\ run_ret.storybook = None
          /\ ~pages_called
          /\ NoBatchSubmitted
    /\ Failed(pages_result) =>
          /\ RunReturned
          /\ run_ret = StageFailure(pages_result)
          /\ run_ret.storybook = None
          /\ NoBatchSubmitted

\* Structure generation used up its retries on a transient failure.
C10_Witness ==
    /\ RunReturned
    /\ Failed(structure_result)
    /\ structure_result.text = {"timeout"}

\* C11: once structure and page-text generation have succeeded, the run
\* ends by returning success = true with an artifact and generation_stats,
\* never by raising, whichever prompt, image and audio units fail or raise.
C11_BatchFailuresAbsorbed ==
    (stage \in {"returned", "raised"}
        /\ Success(structure_result) /\ Success(pages_result)) =>
        /\ RunReturned
        /\ run_ret.success
        /\ run_ret.storybook # None
        /\ run_ret.generation_stats # None
        /\ current_storybook = run_ret.storybook

\* Every prompt fell back to its default, every recorded image failed, one
\* image unit raised and every audio unit failed.
C11_Witness ==
    /\ RunReturned /\ run_ret.success
    /\ \A j \in DOMAIN prompts_data :
          prompts_data[j].prompt = DefaultPrompt(prompts_data[j].key)
    /\ \A k \in DOMAIN results : ~Success(results[k])
    /\ \E i \in Tasks : tres[i] = ImageRaise /\ fstate[i] = "failed"
    /\ \A k \in DOMAIN audio_results : ~Success(audio_results[k])

\* The image tasks of the run's batch that returned a successful result
SucceededTasks ==
    {i \in Tasks : fstate[i] = "finished" /\ Success(tres[i])}

\* C13: for a run with n pages whose image batch met no quota error,
\* total_images is n + 1, successful_images is the number of image tasks
\* that returned success and failed_images is their difference.
C13_StatsWithoutQuota ==
    (RunReturned /\ run_ret.success /\ ~quota_exhausted) =>
        LET stats == run_ret.generation_stats[1]
        IN  /\ stats.total_images = Len(pages) + 1
            /\ stats.successful_images = Cardinality(SucceededTasks)
            /\ stats.failed_images = stats.total_images - stats.successful_images
            /\ ~stats.quota_exhausted

\* A run without quota error in which one image succeeded and one did not.
C13_Witness ==
    /\ RunReturned /\ run_ret.success /\ ~quota_exhausted
    /\ run_ret.generation_stats[1].successful_images >= 1
    /\ run_ret.generation_stats[1].failed_images >= 1

\* Image or audio workers of the run that are still executing
WorkersExecuting ==
    {i \in Tasks : fstate[i] = "running"}
        \cup {i \in DOMAIN afstate : afstate[i] = "running"}

\* C15: the artifact is assembled only after both the image batch and the
\* audio batch have returned, and no page or cover entry exists while an
\* image or audio worker of the run is still executing.
C15_AssemblyAfterBatches ==
    /\ (current_storybook # None \/ run_ret.storybook # None) =>
          /\ MediaJoined
          /\ WorkersExecuting = {}
    /\ (stage = "media" /\ WorkersExecuting # {}) => ~ENABLED AssembleStorybook

\* The run was assembled after a batch that tripped while another task was
\* executing; that task ran on after the collector had left its loop.
C15_Witness ==
    /\ RunReturned /\ run_ret.success
    /\ \E i \in runningAtTrip :
          fstate[i] = "finished" /\ KeyOf(i) \notin DOMAIN results

\* The image tasks that returned the skipped result
SkippedTasks == {i \in Tasks : tres[i] = SkippedResult}

\* The image tasks whose own service call ended in a quota failure
QuotaFailedTasks == {a \in Tasks : tcalls[a] > 0 /\ tres[a] = ImageQuotaFailure}

\* The prompt and audio units that failed
FailedPromptUnits ==
    {i \in DOMAIN pprompt : pprompt[i] = DefaultPrompt(BatchKey(i))}
FailedAudioUnits == {i \in DOMAIN ares : ares[i] # NoOutcome /\ ~Success(ares[i])}

\* C18: the batches share no breaker. An image task is skipped only when an
\* image task of the batch met a quota failure, whatever failed among the
\* prompt and audio units; and whatever the image flag, no audio task is
\* skipped and the audio batch returns the result of every audio task.
C18_NoSharedBreaker ==
    /\ SkippedTasks # {} => QuotaFailedTasks # {}
    /\ \A i \in DOMAIN ares : ares[i] # SkippedResult /\ ares[i].error_type # QuotaType
    /\ apc = "returned" =>
          /\ DOMAIN audio_results = {BatchKey(i) : i \in DOMAIN ares}
          /\ \A i \in DOMAIN ares : audio_results[BatchKey(i)] = ares[i]

\* A prompt unit and an audio unit failed, yet an image task called the
\* service and succeeded; the image flag was set by another image task, yet
\* the audio map holds every audio result, a success among them.
C18_Witness ==
    /\ RunReturned
    /\ FailedPromptUnits # {} /\ FailedAudioUnits # {}
    /\ \E i \in Tasks : tcalls[i] > 0 /\ Success(tres[i])
    /\ quota_exhausted /\ QuotaFailedTasks # {}
    /\ \E k \in DOMAIN audio_results : Success(audio_results[k])
    /\ Cardinality(DOMAIN audio_results) = Len(pages) + 1

\* The keys submitted to the prompt batch and to the audio batch
BatchKeys == {BatchKey(i) : i \in BatchTasks}

\* C19: the prompt batch and the audio batch each return exactly one entry
\* for every submitted key, whichever units fail and in whatever order they
\* complete; a failed prompt unit yields its default prompt and a failed
\* audio unit a success = False result.
C19_OneEntryPerKey ==
    /\ ppc = "returned" =>
          /\ Len(prompts_data) = Cardinality(BatchKeys)
          /\ \A k \in BatchKeys :
                Cardinality({j \in DOMAIN prompts_data : prompts_data[j].key = k}) = 1
          /\ \A i \in DOMAIN pprompt :
                \E j \in DOMAIN prompts_data :
                    /\ prompts_data[j] = PromptEntryOf(i)
                    /\ pprompt[i] \in {GeneratedPrompt(BatchKey(i)),
                                       DefaultPrompt(BatchKey(i))}
    /\ apc = "returned" =>
          /\ DOMAIN audio_results = BatchKeys
          /\ \A i \in DOMAIN ares :
                /\ audio_results[BatchKey(i)] = ares[i]
                /\ ares[i].kind \in {"ok", "fail"}

\* Both batches have returned; the cover's prompt completed first, a prompt
\* unit fell back to its default and an audio unit failed.
C19_Witness ==
    /\ ppc = "returned" /\ apc = "returned"
    /\ prompts_data[1].key = CoverKey
    /\ FailedPromptUnits # {}
    /\ FailedAudioUnits # {}

RECURSIVE SumOver(_, _)
\* The sum of f over the set S
SumOver(f, S) ==
    IF S = {} THEN 0
    ELSE LET x == CHOOSE x \in S : TRUE IN f[x] + SumOver(f, S \ {x})

\* C25 (checked under SpecImages): with pool size P, every invocation of
\* the image service that begins after the flag is set belongs to a task
\* that read the flag as not set at its breaker check; at most P - 1 tasks
\* make such invocations, and all the invocations of those tasks together
\* are at most (P - 1) * (max_retries + 1).
C25_LateInvocationsBounded ==
    /\ \A i \in lateCalls : ~sawOpen[i] /\ i \in runningAtTrip
    /\ Cardinality(lateCalls) <= max_concurrent - 1
    /\ SumOver(tcalls, lateCalls) <= (max_concurrent - 1) * (ImageMaxRetries + 1)

\* On a pool of two, a task that passed its check before the trip has
\* invoked the service after it and has made every invocation its wrapper
\* allows.
C25_Witness ==
    /\ max_concurrent = 2
    /\ quota_exhausted
    /\ \E i \in lateCalls :
          /\ tcalls[i] = ImageMaxRetries + 1
          /\ ~sawOpen[i]
          /\ tpc[i] = "done"

(***************************************************************************)
(* Claims about regeneration (checked under SpecRegen)                     *)
(***************************************************************************)
\* The page and cover entries of a storybook, by position (cover at 0).
Entries(book) ==
    [i \in 0..Len(book.pages) |-> IF i = 0 THEN book.cover ELSE book.pages[i]]

\* C12: every page and cover entry whose success flag was true when the
\* regeneration call began is the same in every field during and after the
\* call, for every filter, also one that names the entry's page number.
C12_SucceededEntriesUntouched ==
    (gpc # "idle" /\ book_before # None) =>
        /\ current_storybook # None
        /\ DOMAIN Entries(current_storybook[1]) = DOMAIN Entries(book_before[1])
        /\ \A i \in DOMAIN Entries(book_before[1]) :
              Entries(book_before[1])[i].success =>
                  Entries(current_storybook[1])[i] = Entries(book_before[1])[i]

\* A call whose filter named a succeeded entry has regenerated another one.
C12_Witness ==
    /\ gpc = "returned" /\ regen_ret.success /\ regen_ret.regenerated > 0
    /\ failed_page_numbers # None
    /\ \E i \in DOMAIN Entries(book_before[1]) :
          /\ Entries(book_before[1])[i].success
          /\ Entries(book_before[1])[i].page_number \in failed_page_numbers[1]

\* C21: a regeneration call has at most one image-generation call in flight
\* at any time, and it submits nothing to a thread pool: the image, prompt
\* and audio pools stay as they were, without a future.
C21_OneCallAtATime ==
    /\ in_flight <= 1
    /\ in_flight = 1 <=> gpc = "calling"
    /\ gpc # "idle" =>
          /\ bpc = "idle" /\ Tasks = {}
          /\ ppc = "idle" /\ apc = "idle"

\* The call for the second of two targets is in flight, the first has ended.
C21_Witness ==
    /\ gpc = "calling" /\ in_flight = 1
    /\ Len(pages_to_regenerate) = 2 /\ gidx = 2
    /\ pages_to_regenerate[1] \in DOMAIN regenerated_results

\* The numbers of the entries (the cover as 0) that had failed when the
\* call began and that the filter, if there is one, names.
FailedAndNamed ==
    {Entries(book_before[1])[i].page_number :
        i \in {i \in DOMAIN Entries(book_before[1]) :
                  /\ Entries(book_before[1])[i].success = FALSE
                  /\ \/ failed_page_numbers = None
                     \/ Entries(book_before[1])[i].page_number
                            \in failed_page_numbers[1]}}

\* The targets as a set
TargetSet == {pages_to_regenerate[j] : j \in 1..Len(pages_to_regenerate)}

\* C22: the targets of a call on a storybook that has its story structure
\* are exactly the failed entries that pass the filter, each once; when the generation loop has ended the image service
\* was invoked for every target, also after an earlier target's result was
\* a quota failure, and total_attempted is the number of targets.
C22_EveryTargetInvoked ==
    (gpc # "idle" /\ book_before # None /\ book_before[1].story_structure) =>
        /\ TargetSet = FailedAndNamed
        /\ Len(pages_to_regenerate) = Cardinality(FailedAndNamed)
        /\ invoked \subseteq TargetSet
        /\ (gpc = "update" \/ (gpc = "returned" /\ regen_ret.updated_storybook # None)) =>
              /\ invoked = TargetSet
              /\ DOMAIN regenerated_results = TargetSet
        /\ (gpc = "returned" /\ regen_ret.updated_storybook # None) =>
              regen_ret.total_attempted = Cardinality(FailedAndNamed)

\* A call with a filter has returned after two targets: the first target's
\* result was a quota failure and the second was invoked and regenerated.
C22_Witness ==
    /\ gpc = "returned" /\ regen_ret.updated_storybook # None
    /\ failed_page_numbers # None
    /\ regen_ret.total_attempted = 2
    /\ TripsBreaker(regenerated_results[pages_to_regenerate[1]])
    /\ pages_to_regenerate[2] \in invoked
    /\ Success(regenerated_results[pages_to_regenerate[2]])
    /\ Cardinality({i \in DOMAIN Entries(book_before[1]) :
                       ~Entries(book_before[1])[i].success}) = 3

\* The fields of an entry that are not image result fields.
OtherFields(e) ==
    [page_number |-> e.page_number, text |-> e.text,
     image_prompt |-> e.image_prompt, audio_success |-> e.audio_success]

\* C23: a regeneration call returns the storybook it was given, updated in
\* place: the same pages in the same order, every entry's text, page
\* number, image prompt and audio fields as before, and only image_data,
\* success and model of a regenerated entry changed; until the update loop
\* the storybook is as it was.
C23_UpdatedInPlace ==
    (gpc # "idle" /\ book_before # None) =>
        /\ current_storybook # None
        /\ gpc \in {"generate", "calling", "update"} => current_storybook = book_before
        /\ (gpc = "returned" /\ regen_ret.updated_storybook # None) =>
              regen_ret.updated_storybook = current_storybook
        /\ Len(current_storybook[1].pages) = Len(book_before[1].pages)
        /\ current_storybook[1].story_structure = book_before[1].story_structure
        /\ \A i \in DOMAIN Entries(book_before[1]) :
              LET old == Entries(book_before[1])[i]
                  new == Entries(current_storybook[1])[i]
              IN  /\ OtherFields(new) = OtherFields(old)
                  /\ new # old =>
                        /\ old.page_number \in TargetSet
                        /\ Success(regenerated_results[old.page_number])
                        /\ new.success /\ new.image_data = RegeneratedImage

\* A call has returned a storybook in which a page was regenerated and
\* another target was not.
C23_Witness ==
    /\ gpc = "returned" /\ regen_ret.updated_storybook # None
    /\ regen_ret.regenerated = 1 /\ regen_ret.total_attempted = 2
    /\ Len(book_before[1].pages) = 2
    /\ current_storybook[1].pages[2] # book_before[1].pages[2]
    /\ OtherFields(current_storybook[1].pages[2]) = OtherFields(book_before[1].pages[2])

\* The number of entries of a storybook whose image success flag is false.
FailedCount(book) ==
    Cardinality({i \in DOMAIN Entries(book) : ~Entries(book)[i].success})

\* What a returned call leaves behind.
RegenerationAccounts ==
    (gpc = "returned" /\ regen_ret.updated_storybook # None) =>
        /\ FailedCount(current_storybook[1])
              = FailedCount(book_before[1]) - regen_ret.regenerated
        /\ \A i \in DOMAIN Entries(book_before[1]) :
              LET old == Entries(book_before[1])[i]
              IN  (old.page_number \in TargetSet
                     /\ ~Success(regenerated_results[old.page_number]))
                  => Entries(current_storybook[1])[i] = old

\* No step takes an entry's success flag from true to false.
SuccessKept ==
    (current_storybook # None /\ current_storybook' # None) =>
        /\ DOMAIN Entries(current_storybook'[1]) = DOMAIN Entries(current_storybook[1])
        /\ \A i \in DOMAIN Entries(current_storybook[1]) :
              Entries(current_storybook[1])[i].success
                 => Entries(current_storybook'[1])[i].success

\* C27: over any sequence of regeneration calls no entry's image success
\* flag goes from true to false; a target whose regeneration failed keeps
\* every field, and the failed entries after a call are those before it
\* less the returned regenerated count.
C27_NeverBackToFailed == [][SuccessKept]_vars /\ []RegenerationAccounts

\* A second call on the same storybook has returned: the entry the first
\* call regenerated is still a success, one target failed again and one
\* was regenerated.
C27_Witness ==
    /\ gpc = "returned" /\ regen_ret.updated_storybook # None
    /\ regen_ret.regenerated = 1 /\ regen_ret.total_attempted = 2
    /\ FailedCount(book_before[1]) = 2
    /\ \E i \in DOMAIN Entries(book_before[1]) :
          /\ Entries(book_before[1])[i].success
          /\ Entries(book_before[1])[i].image_data = RegeneratedImage
    /\ \E i \in DOMAIN Entries(book_before[1]) :
          /\ Entries(book_before[1])[i].page_number \in TargetSet
          /\ ~Success(regenerated_results[Entries(book_before[1])[i].page_number])

(***************************************************************************)
(* Further claims about a run (checked under SpecRun)                      *)
(***************************************************************************)
\* C24: in every successful run result total_images is the number of image
\* entries of the storybook (its pages plus the cover) and failed_images is
\* the number of those entries whose success flag is false.
C24_StatsMatchEntries ==
    (stage = "returned" /\ run_ret.success) =>
        LET book == run_ret.storybook[1]
            stats == run_ret.generation_stats[1]
        IN  /\ stats.total_images = Len(book.pages) + 1
            /\ stats.failed_images = FailedCount(book)

\* C26 (checked under SpecRunLive): when every remote call returns,
\* create_storybook returns, with a storybook or a stage failure, whatever
\* the interleaving of the workers, also after a breaker trip that cancels
\* the futures not yet started.
C26_RunReturns == <>(stage = "returned" /\ run_ret # NotReturned)

\* A run has returned its storybook after the breaker tripped and a future
\* that had not started was cancelled.
C26_Witness ==
    /\ stage = "returned" /\ run_ret.success
    /\ quota_exhausted
    /\ \E i \in Tasks : fstate[i] = "cancelled"

\* The step that ends a run with its storybook.
Completes ==
    /\ stage = "media" /\ stage' = "returned"
    /\ Success(structure_result) /\ Success(pages_result)
    /\ run_ret'.success
    /\ current_storybook' = run_ret'.storybook

\* What a step of a run may do to the stored storybook.
StoreWrittenOnCompletion ==
    /\ current_storybook' # current_storybook => Completes
    /\ (stage' = "returned" /\ run_ret'.success) => current_storybook' = run_ret'.storybook
    /\ (stage # "returned" /\ stage' = "returned" /\ ~run_ret'.success)
          => current_storybook' = current_storybook

\* C28 (checked under SpecStored): the stored storybook is replaced only by
\* the step that completes a run: a run that fails at the structure or the
\* page-text stage leaves the stored storybook as it was, and a completed
\* run stores exactly the storybook it returns.
C28_StoredOnlyOnCompletion == [][StoreWrittenOnCompletion]_vars

\* A run on a generator that held a storybook has failed at the page-text
\* stage, and the storybook is still there.
C28_Witness ==
    /\ stage = "returned" /\ ~run_ret.success
    /\ Success(structure_result) /\ pages_called
    /\ current_storybook = Some(PreviousBook)

\* C29 (checked under SpecRun): a prompt task, for a page or the cover,
\* invokes the text service at most once: after its one invocation the task
\* has ended with the written prompt or, when the call failed, with the
\* default prompt, and the wrapper has not called again.
C29_PromptCalledOnce ==
    \A i \in DOMAIN pfstate :
        /\ pcalls[i] <= 1
        /\ pcalls[i] = 1 <=> pfstate[i] = "finished"
        /\ pfstate[i] = "finished" =>
              pprompt[i] \in {GeneratedPrompt(BatchKey(i)), DefaultPrompt(BatchKey(i))}

\* The prompt batch has returned; the cover's task called the service once,
\* the call failed and the cover has its default prompt.
C29_Witness ==
    /\ ppc = "returned"
    /\ \E i \in DOMAIN pfstate :
          /\ BatchKey(i) = CoverKey
          /\ pcalls[i] = 1
          /\ pprompt[i] = DefaultPrompt(CoverKey)
    /\ \E j \in 1..Len(prompts_data) :
          prompts_data[j] = [key |-> CoverKey, prompt |-> DefaultPrompt(CoverKey)]

\* C30 (checked under SpecQuotaStatus): the attribute quota_exhausted of
\* the generator is False in every reachable state, and so is the value the
\* quota-status endpoint answers, also when an image batch has met the
\* quota and the run reports it in its statistics.
C30_AttributeNeverSet ==
    /\ self_quota_exhausted = FALSE
    /\ quota_status # None => quota_status[1].quota_exhausted = FALSE

\* A run whose image batch met the quota has returned, its statistics say
\* so, and the endpoint asked afterwards answers False.
C30_Witness ==
    /\ stage = "returned" /\ run_ret.success
    /\ quota_exhausted
    /\ run_ret.generation_stats[1].quota_exhausted
    /\ quota_status = Some([quota_exhausted |-> FALSE])

====
